---- MODULE Spec2Model ----
(***************************************************************************)
(* Model of the Extractify document pipeline: OCRService.extract_text and *)
(* extract_text_from_pdf, LLMService.extract_data and DocumentPipeline     *)
(* (process_single_document, process_directory, _save_result,              *)
(* process_all_document_types).                                            *)
(*                                                                         *)
(* Strings of the program (OCR text, the text argument of extract_data)    *)
(* are sequences of code points, so that slicing, stripping and halving    *)
(* are computed as Python computes them.  The OCR provider, the language   *)
(* model and the output parser are external: their answers are chosen      *)
(* nondeterministically from small sets.                                   *)
(***************************************************************************)
EXTENDS Integers, Sequences, FiniteSets, TLC

VARIABLES
    \* ---- the directory batch (DocumentPipeline.process_directory) ----
    dir_exists,       \* whether directory_path exists
    dir_files,        \* the files directly under directory_path
    document_type,    \* the document_type argument of the running call
    pd_pc,            \* position of process_directory
    supported_files,  \* the list built by the glob loop (submission order)
    results,          \* the local list `results`
    completed,        \* units in the order their futures finished
    ac_first,         \* futures already finished when as_completed was called
    handled,          \* units whose future as_completed has yielded
    output,           \* the output directory: artifact name -> record written
    pd_outcome,       \* what process_directory returned or raised
    \* ---- one unit of work (process_single_document), per submitted file ----
    upc,              \* position of the unit
    file_path,        \* the file_path argument of the unit
    text,             \* extracted_text of the unit / the text argument of extract_data
    ocr_outcome,      \* whether extract_text returned or what it raised
    future,           \* the unit's future: what process_single_document returned or raised
    provider_calls,   \* number of text_detection requests the unit's extract_text made
    \* ---- OCRService.extract_text_from_pdf page by page, per calling unit ----
    pdf_pc,           \* position of extract_text_from_pdf
    page,             \* the page at hand (i + 1 of the enumerate loop)
    all_text,         \* the local list all_text
    temp_files,       \* the temp_page_<i>.png files of the working directory
    \* ---- DocumentPipeline.process_all_document_types ----
    subfolders,       \* the base directory: folder name -> whether it exists, its files
    padt_pc,          \* position of process_all_document_types
    padt_i,           \* position of the loop over document_types
    all_results,      \* the local dict all_results
    padt_outcome,     \* what process_all_document_types returned or raised
    \* ---- LLMService.extract_data, per calling unit ----
    ed_pc,            \* position of the innermost extract_data frame
    stack,            \* the extract_data frames, outermost first
    ed_outcome,       \* what the outermost extract_data returned or raised
    invocations,      \* the prompts handed to llm.invoke, in order
    responses,        \* what llm.invoke gave back, in order
    log               \* the error/warning records logged by the unit's thread

vars == << dir_exists, dir_files, document_type, pd_pc, supported_files, results,
           completed, ac_first, handled, output, pd_outcome,
           upc, file_path, text, ocr_outcome, future, provider_calls,
           pdf_pc, page, all_text, temp_files,
           subfolders, padt_pc, padt_i, all_results, padt_outcome,
           ed_pc, stack, ed_outcome, invocations, responses, log >>

pd_vars == << dir_exists, dir_files, document_type, pd_pc, supported_files, results,
              completed, ac_first, handled, output, pd_outcome >>

psd_vars == << upc, file_path, text, ocr_outcome, future, provider_calls >>

pdf_vars == << pdf_pc, page, all_text, temp_files >>

padt_vars == << subfolders, padt_pc, padt_i, all_results, padt_outcome >>

ed_vars == << ed_pc, stack, ed_outcome, invocations, responses, log >>

----------------------------------------------------------------------------
(* Bounds of the model *)

\* Text lengths are taken within ExtraLen of each landmark length.
ExtraLen == 1

\* The pool experiment submits PoolExtra files more than the pool has workers.
PoolExtra == 1

\* At most MaxFiles files of the directory match the supported extensions.
MaxFiles == 2

Units == 1..MaxFiles

----------------------------------------------------------------------------
(* Program constants *)

MAX_CHARS == 2000

RETRY_MIN_CHARS == 500

MAX_WORKERS == 4

SUPPORTED_IMAGE_FORMATS == << ".jpg", ".jpeg", ".png" >>

SUPPORTED_PDF_FORMATS == << ".pdf" >>

OUTPUT_DIR == "output"

KnownTypes == { "driving_license", "shop_receipt", "resume" }

\* self.prompts: one template per known document type.
prompts == [ t \in KnownTypes |-> [ template |-> t ] ]

\* model_map of _get_model_class.
model_map == [ t \in KnownTypes |->
                 CASE t = "driving_license" -> "DrivingLicense"
                   [] t = "shop_receipt"    -> "ShopReceipt"
                   [] t = "resume"          -> "Resume" ]

\* dict.get: None for a key the map does not hold.
get_model_class(dt) == IF dt \in DOMAIN model_map THEN model_map[dt] ELSE "None"

----------------------------------------------------------------------------
(* Python strings as sequences of code points *)

Whitespace == { 9, 10, 11, 12, 13, 32 }

IsSpace(c) == c \in Whitespace

\* str.strip(): the string without its leading and trailing whitespace.
Strip(s) ==
    LET n == Len(s)
    IN  IF \A i \in 1..n : IsSpace(s[i])
        THEN << >>
        ELSE LET first == CHOOSE i \in 1..n :
                              /\ ~IsSpace(s[i])
                              /\ \A j \in 1..(i-1) : IsSpace(s[j])
                 \* the number of trailing whitespace code points
                 tail  == CHOOSE k \in 0..(n-1) :
                              /\ ~IsSpace(s[n-k])
                              /\ \A j \in 0..(k-1) : IsSpace(s[n-j])
             IN  SubSeq(s, first, n - tail)

\* s[:n] for n >= 0.
Prefix(s, n) == SubSeq(s, 1, IF n < Len(s) THEN n ELSE Len(s))

IsPrefixOf(p, s) == Len(p) <= Len(s) /\ \A i \in 1..Len(p) : p[i] = s[i]

\* A text of length n whose first w code points are spaces and whose other
\* code points are pairwise distinct.
MkText(n, w) == [ i \in 1..n |-> IF i <= w THEN 32 ELSE 1000 + i ]

----------------------------------------------------------------------------
(* Exceptions, log records, the language model and the output parser *)

\* An exception: its class, and the message str(e) gives: a fixed text
\* followed by one formatted argument.
Exc(cls, msg, arg) == [ cls |-> cls, msg |-> msg, arg |-> arg ]

\* str(e)
Str(e) == [ msg |-> e.msg, arg |-> e.arg ]

EmptyInputError == Exc("ValueError", "No text extracted from OCR to send to LLM.", "")

UnsupportedDocumentType(dt) == Exc("ValueError", "Unsupported document type: ", dt)

EmptyModelOutputError == Exc("ValueError", "LLM returned empty output.", "")

\* What response.content can be: `pad` whitespace code points around a body.
\* The body is empty, the JSON object of one of the three schemas, a JSON
\* object of no schema, or text that is not JSON.
JsonOf(cls) == [ kind |-> "json", schema |-> cls ]

Bodies == { [ kind |-> "empty", schema |-> "" ],
            JsonOf("DrivingLicense"), JsonOf("ShopReceipt"), JsonOf("Resume"),
            [ kind |-> "json", schema |-> "other" ],
            [ kind |-> "garbage", schema |-> "" ] }

RawOutputs == { [ pad |-> 0, body |-> b ] : b \in Bodies }
              \cup { [ pad |-> 1, body |-> [ kind |-> "empty", schema |-> "" ] ],
                     [ pad |-> 1, body |-> JsonOf("Resume") ] }

\* raw_output.strip() is empty.
RawIsBlank(raw) == raw.body.kind = "empty"

\* llm.invoke either returns a response or raises (provider/network error).
ProviderError == Exc("APIError", "model provider error", "")

LLMOutcomes == { [ kind |-> "content", raw |-> r ] : r \in RawOutputs }
               \cup { [ kind |-> "raise", raw |-> [ pad |-> 0, body |-> [ kind |-> "empty", schema |-> "" ] ] ] }

\* PydanticOutputParser(pydantic_object=cls).parse(raw_output): the typed
\* object when the body is a JSON object of cls's schema, else it raises.
Parses(raw, cls) == raw.body = JsonOf(cls)

SchemaParseError(raw, cls) == Exc("OutputParserException", "Failed to parse ", cls)

\* parsed_data.model_dump()
model_dump(raw, cls) == [ schema |-> cls ]

\* prompt.format_messages(text=text, format_instructions=...)
format_messages(prompt, t, cls) ==
    [ template |-> prompt.template, text |-> t, format_instructions |-> cls ]

\* Log records of one thread.
LogRec(level, msg, arg) == [ level |-> level, msg |-> msg, arg |-> arg ]

RawLogRec(raw) == [ level |-> "error", msg |-> "Raw LLM output: ", raw |-> raw ]

----------------------------------------------------------------------------
(* LLMService.extract_data *)

\* A frame of extract_data: its locals.  raw_output is a key of the frame
\* only once line 148 has bound it ('raw_output' in locals()).
Frame(t, dt) == [ text |-> t, document_type |-> dt ]

BindRaw(f, raw) == [ text |-> f.text, document_type |-> f.document_type, raw_output |-> raw ]

Top(st) == st[Len(st)]

ReplaceTop(st, f) == [ st EXCEPT ![Len(st)] = f ]

\* Lines 134-137: the hard cap on the text sent.
TruncateBug(t) == IF Len(t) > MAX_CHARS THEN SubSeq(t, Len(t) - MAX_CHARS + 1, Len(t)) ELSE t
Truncate(t) == IF Len(t) > MAX_CHARS THEN Prefix(t, MAX_CHARS) ELSE t

\* The last half of the text instead of the first.
HalveSuffix(t) == SubSeq(t, Len(t) - (Len(t) \div 2) + 1, Len(t))

\* Line 156: text[:len(text)//2]
Halve(t) == Prefix(t, Len(t) \div 2)

\* A retry threshold that includes RETRY_MIN_CHARS itself.
ShouldRetryFrom(t) == Len(t) >= RETRY_MIN_CHARS

\* Line 154: whether an empty answer is retried.
ShouldRetry(t) == Len(t) > RETRY_MIN_CHARS

\* Lines 127 and 130: the two validations, in the order the code makes them.
ValidationErrorNoStrip(t, dt) ==
    IF t = << >> THEN << EmptyInputError >>
    ELSE IF dt \notin DOMAIN prompts THEN << UnsupportedDocumentType(dt) >>
    ELSE << >>
ValidationError(t, dt) ==
    IF Strip(t) = << >> THEN << EmptyInputError >>
    ELSE IF dt \notin DOMAIN prompts THEN << UnsupportedDocumentType(dt) >>
    ELSE << >>

\* Lines 165-170 in one frame: log the error, log raw_output when the frame
\* has bound it, re-raise.
ExceptLogNoRaw(f, e) ==
    << [ level |-> "error", msg |-> "Error extracting data for ",
         arg |-> f.document_type, err |-> Str(e) ] >>
ExceptLog(f, e) ==
    << [ level |-> "error", msg |-> "Error extracting data for ",
         arg |-> f.document_type, err |-> Str(e) ] >>
    \o (IF "raw_output" \in DOMAIN f THEN << RawLogRec(f.raw_output) >> ELSE << >>)

\* An exception raised in the innermost frame passes through the except
\* clause of every frame, innermost first.
RECURSIVE UnwindLog(_, _)
UnwindLog(st, e) ==
    IF st = << >> THEN << >>
    ELSE ExceptLog(Top(st), e) \o UnwindLog(SubSeq(st, 1, Len(st) - 1), e)

Raised(e) == [ kind |-> "raise", exc |-> e ]

Returned(v) == [ kind |-> "return", value |-> v ]

NoOutcome == [ kind |-> "none" ]

\* The innermost frame runs lines 126-147: validation, truncation, prompt
\* building, and the hand-over of the prompt to llm.invoke.
extract_data_enter(u) ==
    /\ ed_pc[u] = "enter"
    /\ LET f   == Top(stack[u])
           err == ValidationError(f.text, f.document_type)
       IN IF err # << >>
          THEN \* lines 127-131 raise; the except clauses log and re-raise
               /\ log' = [ log EXCEPT ![u] = @
                            \o (IF Strip(f.text) = << >>
                                THEN << LogRec("error", "OCR text is empty for document type: ", f.document_type) >>
                                ELSE << >>)
                            \o UnwindLog(stack[u], err[1]) ]
               /\ ed_outcome' = [ ed_outcome EXCEPT ![u] = Raised(err[1]) ]
               /\ stack' = [ stack EXCEPT ![u] = << >> ]
               /\ ed_pc' = [ ed_pc EXCEPT ![u] = "done" ]
               /\ UNCHANGED invocations
          ELSE LET t   == Truncate(f.text)
                   cls == get_model_class(f.document_type)
                   fp  == format_messages(prompts[f.document_type], t, cls)
               IN /\ log' = [ log EXCEPT ![u] = @
                               \o (IF Len(f.text) > MAX_CHARS
                                   THEN << LogRec("warning", "OCR text too long, truncating", f.document_type) >>
                                   ELSE << >>) ]
                  /\ stack' = [ stack EXCEPT ![u] = ReplaceTop(@, Frame(t, f.document_type)) ]
                  /\ invocations' = [ invocations EXCEPT ![u] = Append(@, fp) ]
                  /\ ed_pc' = [ ed_pc EXCEPT ![u] = "invoked" ]
                  /\ UNCHANGED ed_outcome
    /\ UNCHANGED << responses, pd_vars, psd_vars >>
    /\ UNCHANGED << pdf_vars, padt_vars >>

\* llm.invoke comes back (line 147) and the frame runs lines 148-163.
extract_data_response(u) ==
    /\ ed_pc[u] = "invoked"
    /\ \E r \in LLMOutcomes :
         /\ responses' = [ responses EXCEPT ![u] = Append(@, r) ]
         /\ LET f   == Top(stack[u])
                cls == get_model_class(f.document_type)
                fr  == BindRaw(f, r.raw)
                raise(st, e, pre) ==
                    /\ log' = [ log EXCEPT ![u] = @ \o pre \o UnwindLog(st, e) ]
                    /\ ed_outcome' = [ ed_outcome EXCEPT ![u] = Raised(e) ]
                    /\ stack' = [ stack EXCEPT ![u] = << >> ]
                    /\ ed_pc' = [ ed_pc EXCEPT ![u] = "done" ]
                emptylog ==
                    << LogRec("error", "LLM returned empty output for document type: ", f.document_type),
                       [ level |-> "error", msg |-> "Prompt sent to LLM", len |-> Len(f.text) ] >>
            IN IF r.kind = "raise"
               THEN raise(stack[u], ProviderError, << >>)
               ELSE IF RawIsBlank(r.raw)
               THEN IF ShouldRetry(f.text)
                    THEN \* line 156: recurse on the first half of the text
                         /\ log' = [ log EXCEPT ![u] = @ \o emptylog
                                      \o << LogRec("warning", "Retrying LLM with half the text length.", "") >> ]
                         /\ stack' = [ stack EXCEPT ![u] =
                                         Append(ReplaceTop(@, fr), Frame(Halve(f.text), f.document_type)) ]
                         /\ ed_pc' = [ ed_pc EXCEPT ![u] = "enter" ]
                         /\ UNCHANGED ed_outcome
                    ELSE raise(ReplaceTop(stack[u], fr), EmptyModelOutputError, emptylog)
               ELSE IF Parses(r.raw, cls)
               THEN \* line 163; every outer frame returns the value unchanged (line 156)
                    /\ ed_outcome' = [ ed_outcome EXCEPT ![u] = Returned(model_dump(r.raw, cls)) ]
                    /\ stack' = [ stack EXCEPT ![u] = << >> ]
                    /\ ed_pc' = [ ed_pc EXCEPT ![u] = "done" ]
                    /\ UNCHANGED log
               ELSE raise(ReplaceTop(stack[u], fr), SchemaParseError(r.raw, cls), << >>)
    /\ UNCHANGED << invocations, pd_vars, psd_vars >>
    /\ UNCHANGED << pdf_vars, padt_vars >>

----------------------------------------------------------------------------
(* Files and OCRService.extract_text *)

\* A file: its name, and what the OCR provider detects on each of its pages
\* (an image has one page; no detected text is the empty sequence).
File(stem, ext, pages) == [ stem |-> stem, ext |-> ext, pages |-> pages ]

ShortText == MkText(3, 0)

\* A text longer than RETRY_MIN_CHARS whose first half is whitespace.
PaddedText == MkText(RETRY_MIN_CHARS + 1, RETRY_MIN_CHARS \div 2)

\* The files a batch directory may hold.  a.jpg and a.png share their stem,
\* a.png shows no text, b.pdf has an empty first page, c.txt is not matched.
BatchFiles == { File("a", ".jpg", << ShortText >>),
                File("a", ".png", << << >> >>),
                File("b", ".pdf", << << >>, ShortText >>),
                File("c", ".txt", << ShortText >>) }

\* The files process_single_document may be called on directly.
DocFiles == BatchFiles
            \cup { File("d", ".JPG", << ShortText >>),
                   File("e", ".pdf", << << >>, << >> >>),
                   File("f", ".pdf", << >>),
                   File("g", ".jpeg", << << 32, 10 >> >>),
                   File("h", ".png", << PaddedText >>),
                   File("i", ".jpg", << MkText(MAX_CHARS + 1, 0) >>) }

\* str.lower() on the extensions of the model.
Lower(ext) == IF ext = ".JPG" THEN ".jpg" ELSE ext

InSeq(x, sq) == \E i \in 1..Len(sq) : sq[i] = x

\* "\n".join(all_text)
RECURSIVE Join(_)
Join(pages) ==
    IF pages = << >> THEN << >>
    ELSE IF Len(pages) = 1 THEN pages[1]
    ELSE pages[1] \o << 10 >> \o Join(Tail(pages))

UnsupportedFormat(ext) == Exc("ValueError", "Unsupported file format: ", ext)

\* What the provider, the file system or pdf2image can fail with.
ExtractionError == Exc("Exception", "Google Vision API error: ", "provider")

\* A dispatch that hands every file that is not a PDF to the image branch.
extract_text_lenient(f) ==
    IF InSeq(Lower(f.ext), SUPPORTED_PDF_FORMATS)
    THEN Returned(Join(f.pages))
    ELSE Returned(f.pages[1])

\* extract_text(file_path) when no provider call fails: the text, or the
\* exception of line 72.
extract_text(f) ==
    LET file_ext == Lower(f.ext)
    IN  IF InSeq(file_ext, SUPPORTED_IMAGE_FORMATS)
        THEN Returned(f.pages[1])
        ELSE IF InSeq(file_ext, SUPPORTED_PDF_FORMATS)
        THEN Returned(Join(f.pages))
        ELSE Raised(UnsupportedFormat(file_ext))

\* The text_detection requests extract_text makes for this file when none
\* fails: one for an image, one per page for a PDF.
ProviderRequests(f) ==
    IF InSeq(Lower(f.ext), SUPPORTED_IMAGE_FORMATS) THEN 1
    ELSE IF InSeq(Lower(f.ext), SUPPORTED_PDF_FORMATS) THEN Len(f.pages)
    ELSE 0

\* The numbers of requests made when extraction fails: none when the file
\* cannot be opened or converted, else those up to the failing one.
FailingRequests(f) ==
    IF InSeq(Lower(f.ext), SUPPORTED_IMAGE_FORMATS) THEN { 0, 1 }
    ELSE IF InSeq(Lower(f.ext), SUPPORTED_PDF_FORMATS) THEN 0..Len(f.pages)
    ELSE { }

\* Whether extract_text reaches the OCR provider for this file.
ContactsProvider(f) ==
    InSeq(Lower(f.ext), SUPPORTED_IMAGE_FORMATS \o SUPPORTED_PDF_FORMATS)

----------------------------------------------------------------------------
(* DocumentPipeline.process_single_document *)

NoTextError == Exc("ValueError", "No text extracted from document", "")

\* Lines 45-51
SuccessRecord(fp, dt, extracted, structured) ==
    [ file_path |-> fp, document_type |-> dt, extracted_text |-> extracted,
      structured_data |-> structured, processing_status |-> "success" ]

\* Lines 58-63
FailedRecordWithData(fp, dt, e) ==
    [ file_path |-> fp, document_type |-> dt, error |-> Str(e),
      structured_data |-> << >>, processing_status |-> "failed" ]
FailedRecord(fp, dt, e) ==
    [ file_path |-> fp, document_type |-> dt, error |-> Str(e),
      processing_status |-> "failed" ]

Running(u) == upc[u] \in { "ocr", "llm" }

\* Line 35: not extracted_text.strip()
IsBlankTextNoStrip(t) == t = << >>
IsBlankText(t) == Strip(t) = << >>

\* Line 56: `except Exception` catches every exception of the model; all
\* their classes derive from Exception.
CatchesOnlyValueError(e) == e.cls = "ValueError"
Catches(e) == e.cls \in { "ValueError", "Exception", "APIError", "OutputParserException", "OSError" }

\* Lines 56-63: what process_single_document does with an exception raised
\* in its try block.
OnException(fp, dt, e) ==
    IF Catches(e) THEN Returned(FailedRecord(fp, dt, e)) ELSE Raised(e)

\* The unit returns or raises: its future is finished.
Complete(u, res) ==
    /\ future' = [ future EXCEPT ![u] = res ]
    /\ upc' = [ upc EXCEPT ![u] = "done" ]
    /\ completed' = Append(completed, u)

\* Lines 33-42: the OCR call comes back (or raises), the blank check, and
\* the call of extract_data; lines 56-63 when one of the first two raises.
psd_ocr(u) ==
    /\ upc[u] = "ocr"
    /\ \E fails \in BOOLEAN :
         LET f   == file_path[u]
             res == IF fails /\ ContactsProvider(f) THEN Raised(ExtractionError)
                    ELSE extract_text(f)
         IN  /\ \E k \in ( IF fails /\ ContactsProvider(f) THEN FailingRequests(f)
                           ELSE { ProviderRequests(f) } ) :
                    provider_calls' = [ provider_calls EXCEPT ![u] = k ]
             /\ IF res.kind = "raise"
                THEN /\ Complete(u, OnException(f, document_type, res.exc))
                     /\ ocr_outcome' = [ ocr_outcome EXCEPT ![u] = res ]
                     /\ UNCHANGED << text, ed_pc, stack >>
                ELSE IF IsBlankText(res.value)
                THEN /\ Complete(u, OnException(f, document_type, NoTextError))
                     /\ ocr_outcome' = [ ocr_outcome EXCEPT ![u] = [ kind |-> "return" ] ]
                     /\ text' = [ text EXCEPT ![u] = res.value ]
                     /\ UNCHANGED << ed_pc, stack >>
                ELSE /\ text' = [ text EXCEPT ![u] = res.value ]
                     /\ ocr_outcome' = [ ocr_outcome EXCEPT ![u] = [ kind |-> "return" ] ]
                     /\ upc' = [ upc EXCEPT ![u] = "llm" ]
                     /\ stack' = [ stack EXCEPT ![u] = << Frame(res.value, document_type) >> ]
                     /\ ed_pc' = [ ed_pc EXCEPT ![u] = "enter" ]
                     /\ UNCHANGED << future, completed >>
    /\ UNCHANGED << dir_exists, dir_files, document_type, pd_pc, supported_files, results,
                    ac_first, handled, output, pd_outcome,
                    file_path, ed_outcome, invocations, responses, log >>
    /\ UNCHANGED << pdf_vars, padt_vars >>

\* extract_data has returned or raised: lines 45-54, or lines 56-63.
psd_finish(u) ==
    /\ upc[u] = "llm"
    /\ ed_pc[u] = "done"
    /\ Complete(u, IF ed_outcome[u].kind = "return"
                   THEN Returned(SuccessRecord(file_path[u], document_type, text[u], ed_outcome[u].value))
                   ELSE OnException(file_path[u], document_type, ed_outcome[u].exc))
    /\ UNCHANGED << dir_exists, dir_files, document_type, pd_pc, supported_files, results,
                    ac_first, handled, output, pd_outcome,
                    file_path, text, ocr_outcome, provider_calls, ed_vars >>
    /\ UNCHANGED << pdf_vars, padt_vars >>

----------------------------------------------------------------------------
(* A direct call of extract_data(text, document_type) *)

\* The document types a caller may pass: the three known tags and one that
\* is not known.
DocTypeArgs == KnownTypes \cup { "passport" }

Landmarks == { 0, RETRY_MIN_CHARS, 2 * RETRY_MIN_CHARS, MAX_CHARS, 2 * MAX_CHARS }

TextLens == { k + d : k \in Landmarks, d \in (0 - ExtraLen)..ExtraLen } \cap Nat

\* Numbers of leading spaces of the input texts; a text of n spaces is
\* taken for every length n as well.
LeadPads == { 0, 2, 250, 600 }

Texts == UNION { { MkText(n, w) : w \in { p \in LeadPads \cup { n } : p <= n } } : n \in TextLens }

\* No extract_text_from_pdf call is under way and the working directory
\* holds no temporary file.
InitPdfIdle ==
    /\ pdf_pc = [ u \in Units |-> "idle" ]
    /\ page = [ u \in Units |-> 0 ]
    /\ all_text = [ u \in Units |-> << >> ]
    /\ temp_files = << >>

\* No process_all_document_types call is under way.
InitAllIdle ==
    /\ subfolders = << >>
    /\ padt_pc = "idle"
    /\ padt_i = 0
    /\ all_results = << >>
    /\ padt_outcome = NoOutcome

\* No process_directory call is under way.
InitDirIdle ==
    /\ provider_calls = [ u \in Units |-> 0 ]
    /\ dir_exists = FALSE
    /\ dir_files = { }
    /\ pd_pc = "none"
    /\ supported_files = << >>
    /\ results = << >>
    /\ completed = << >>
    /\ ac_first = { }
    /\ handled = { }
    /\ output = << >>
    /\ pd_outcome = NoOutcome
    /\ ocr_outcome = [ u \in Units |-> NoOutcome ]
    /\ future = [ u \in Units |-> NoOutcome ]

InitBatchIdle ==
    /\ InitPdfIdle
    /\ InitAllIdle
    /\ InitDirIdle

InitExtract ==
    /\ InitBatchIdle
    /\ upc = [ u \in Units |-> "none" ]
    /\ file_path = [ u \in Units |-> << >> ]
    /\ document_type \in DocTypeArgs
    /\ \E t \in Texts : text = [ u \in Units |-> IF u = 1 THEN t ELSE << >> ]
    /\ ed_pc = [ u \in Units |-> IF u = 1 THEN "enter" ELSE "idle" ]
    /\ stack = [ u \in Units |-> IF u = 1 THEN << Frame(text[1], document_type) >> ELSE << >> ]
    /\ ed_outcome = [ u \in Units |-> NoOutcome ]
    /\ invocations = [ u \in Units |-> << >> ]
    /\ responses = [ u \in Units |-> << >> ]
    /\ log = [ u \in Units |-> << >> ]

NextExtract ==
    \E u \in Units : extract_data_enter(u) \/ extract_data_response(u)

SpecExtract == InitExtract /\ [][NextExtract]_vars

----------------------------------------------------------------------------
(* A direct call of process_single_document(file_path, document_type) *)

InitDoc ==
    /\ InitBatchIdle
    /\ document_type \in DocTypeArgs
    /\ \E f \in DocFiles : file_path = [ u \in Units |-> IF u = 1 THEN f ELSE << >> ]
    /\ upc = [ u \in Units |-> IF u = 1 THEN "ocr" ELSE "none" ]
    /\ text = [ u \in Units |-> << >> ]
    /\ ed_pc = [ u \in Units |-> "idle" ]
    /\ stack = [ u \in Units |-> << >> ]
    /\ ed_outcome = [ u \in Units |-> NoOutcome ]
    /\ invocations = [ u \in Units |-> << >> ]
    /\ responses = [ u \in Units |-> << >> ]
    /\ log = [ u \in Units |-> << >> ]

NextDoc ==
    \E u \in Units :
        \/ psd_ocr(u)
        \/ extract_data_enter(u)
        \/ extract_data_response(u)
        \/ psd_finish(u)

SpecDoc == InitDoc /\ [][NextDoc]_vars

----------------------------------------------------------------------------
(* OCRService.extract_text_from_pdf, page by page, called by the units of  *)
(* the pool at the same time                                               *)

\* Line 47: f"temp_page_{i}.png", a name relative to the working directory
\* of the process, which every thread shares.
TempPagePath(i) == [ name |-> "temp_page_", i |-> i, suffix |-> ".png" ]

\* The temporary file of the page unit u is at (i = page[u] - 1).
TempOf(u) == TempPagePath(page[u] - 1)

\* open() or os.remove() on a name that is not there (FileNotFoundError,
\* an OSError).
TempFileMissing == Exc("OSError", "No such file or directory: ", "temp_page")

\* convert_from_path on a file it cannot read.
ConversionError == Exc("Exception", "Unable to get page count", "pdf2image")

PdfFiles == { f \in DocFiles : f.ext = ".pdf" }

\* Lines 57 and 59-61: extract_text_from_pdf returns or raises.
PdfEnd(u, res) ==
    /\ pdf_pc' = [ pdf_pc EXCEPT ![u] = "done" ]
    /\ ocr_outcome' = [ ocr_outcome EXCEPT ![u] = res ]

\* Lines 42-43: the PDF is converted to one image per page.
pdf_convert(u) ==
    /\ pdf_pc[u] = "convert"
    /\ \E converted \in BOOLEAN :
         IF ~converted
         THEN PdfEnd(u, Raised(ConversionError)) /\ UNCHANGED << page, all_text >>
         ELSE IF file_path[u].pages = << >>
         THEN PdfEnd(u, Returned(Join(<< >>))) /\ UNCHANGED << page, all_text >>
         ELSE /\ pdf_pc' = [ pdf_pc EXCEPT ![u] = "save" ]
              /\ page' = [ page EXCEPT ![u] = 1 ]
              /\ all_text' = [ all_text EXCEPT ![u] = << >> ]
              /\ UNCHANGED ocr_outcome
    /\ UNCHANGED << temp_files, provider_calls, pd_vars, padt_vars, ed_vars,
                    upc, file_path, text, future >>

\* Lines 47-48: image.save creates the temporary file, or replaces the file
\* of that name.
pdf_save(u) ==
    /\ pdf_pc[u] = "save"
    /\ temp_files' = [ p \in DOMAIN temp_files \cup { TempOf(u) } |->
                         IF p = TempOf(u)
                         THEN [ owner |-> u, image |-> file_path[u].pages[page[u]] ]
                         ELSE temp_files[p] ]
    /\ pdf_pc' = [ pdf_pc EXCEPT ![u] = "ocr" ]
    /\ UNCHANGED << page, all_text, ocr_outcome, provider_calls, pd_vars, padt_vars, ed_vars,
                    upc, file_path, text, future >>

\* Lines 51-52: extract_text_from_image opens the file of that name and
\* sends what it holds to the provider.
pdf_ocr(u) ==
    /\ pdf_pc[u] = "ocr"
    /\ IF TempOf(u) \notin DOMAIN temp_files
       THEN /\ PdfEnd(u, Raised(TempFileMissing))
            /\ UNCHANGED << all_text, provider_calls >>
       ELSE /\ provider_calls' = [ provider_calls EXCEPT ![u] = @ + 1 ]
            /\ \E fails \in BOOLEAN :
                 IF fails
                 THEN PdfEnd(u, Raised(ExtractionError)) /\ UNCHANGED all_text
                 ELSE /\ all_text' = [ all_text EXCEPT ![u] = Append(@, temp_files[TempOf(u)].image) ]
                      /\ pdf_pc' = [ pdf_pc EXCEPT ![u] = "remove" ]
                      /\ UNCHANGED ocr_outcome
    /\ UNCHANGED << page, temp_files, pd_vars, padt_vars, ed_vars,
                    upc, file_path, text, future >>

\* Line 55, then the next turn of the loop or line 57: os.remove deletes
\* the file of that name.
pdf_remove(u) ==
    /\ pdf_pc[u] = "remove"
    /\ IF TempOf(u) \notin DOMAIN temp_files
       THEN /\ PdfEnd(u, Raised(TempFileMissing))
            /\ UNCHANGED << page, temp_files >>
       ELSE /\ temp_files' = [ p \in DOMAIN temp_files \ { TempOf(u) } |-> temp_files[p] ]
            /\ IF page[u] = Len(file_path[u].pages)
               THEN PdfEnd(u, Returned(Join(all_text[u]))) /\ UNCHANGED page
               ELSE /\ page' = [ page EXCEPT ![u] = @ + 1 ]
                    /\ pdf_pc' = [ pdf_pc EXCEPT ![u] = "save" ]
                    /\ UNCHANGED ocr_outcome
    /\ UNCHANGED << all_text, provider_calls, pd_vars, padt_vars, ed_vars,
                    upc, file_path, text, future >>

\* Every unit of the pool is in extract_text on a PDF.
InitPdf ==
    /\ InitDirIdle
    /\ InitAllIdle
    /\ document_type = "driving_license"
    /\ file_path \in [ Units -> PdfFiles ]
    /\ upc = [ u \in Units |-> "ocr" ]
    /\ text = [ u \in Units |-> << >> ]
    /\ pdf_pc = [ u \in Units |-> "convert" ]
    /\ page = [ u \in Units |-> 0 ]
    /\ all_text = [ u \in Units |-> << >> ]
    /\ temp_files = << >>
    /\ ed_pc = [ u \in Units |-> "idle" ]
    /\ stack = [ u \in Units |-> << >> ]
    /\ ed_outcome = [ u \in Units |-> NoOutcome ]
    /\ invocations = [ u \in Units |-> << >> ]
    /\ responses = [ u \in Units |-> << >> ]
    /\ log = [ u \in Units |-> << >> ]

NextPdf ==
    \E u \in Units :
        \/ pdf_convert(u)
        \/ pdf_save(u)
        \/ pdf_ocr(u)
        \/ pdf_remove(u)

SpecPdf == InitPdf /\ [][NextPdf]_vars

----------------------------------------------------------------------------
(* DocumentPipeline.process_directory and _save_result *)

DirectoryNotFoundError == Exc("ValueError", "Directory not found: ", "directory_path")

SaveError == Exc("OSError", "cannot write ", OUTPUT_DIR)

\* directory.glob(f"*{ext}"): the files whose name ends with ext, in any of
\* the orders the file system may list them.
Matches(f, ext) == f.ext = ext

RECURSIVE Orders(_)
Orders(S) ==
    IF S = { } THEN { << >> }
    ELSE UNION { { << x >> \o sq : sq \in Orders(S \ { x }) } : x \in S }

\* Lines 74-76: supported_files, extension by extension.
RECURSIVE GlobAll(_, _)
GlobAll(files, exts) ==
    IF exts = << >> THEN { << >> }
    ELSE { a \o b : a \in Orders({ f \in files : Matches(f, Head(exts)) }),
                    b \in GlobAll(files, Tail(exts)) }

Submitted == 1..Len(supported_files)

\* Line 95: the artifact's path.
OutputPath(filename) == [ dir |-> OUTPUT_DIR, name |-> filename, suffix |-> "_result.json" ]

\* Lines 97-98: the write succeeds, or open() raises and no file is made
\* or changed, or json.dump raises after open(..., 'w') has emptied the file
\* and a part of the record is in it.
SaveOutcomes == { "written", "open_failed", "dump_failed" }

\* What a file holds of a record whose json.dump did not finish.
Partial(result) == [ partial_of |-> result ]

\* A write that would leave an existing artifact alone.
save_result_keep_first(out, result, filename) ==
    [ p \in DOMAIN out \cup { OutputPath(filename) } |->
        IF p \in DOMAIN out THEN out[p] ELSE result ]

\* Lines 97-98: the output directory after the artifact is written; open(..., 'w')
\* replaces what a file of that name held.
save_result(out, result, filename) ==
    [ p \in DOMAIN out \cup { OutputPath(filename) } |->
        IF p = OutputPath(filename) THEN result ELSE out[p] ]

\* The glob loop and the submission without the existence check.
pd_start_unchecked ==
    /\ pd_pc = "start"
    /\ \E sf \in GlobAll(dir_files, SUPPORTED_IMAGE_FORMATS \o SUPPORTED_PDF_FORMATS) :
            /\ supported_files' = sf
            /\ upc' = [ u \in Units |-> IF u <= Len(sf) THEN "queued" ELSE "none" ]
            /\ file_path' = [ u \in Units |-> IF u <= Len(sf) THEN sf[u] ELSE << >> ]
            /\ pd_pc' = "submitted"
            /\ UNCHANGED pd_outcome
    /\ UNCHANGED << dir_exists, dir_files, document_type, results, completed, ac_first,
                    handled, output, text, ocr_outcome, future, provider_calls, ed_vars >>
    /\ UNCHANGED << pdf_vars, padt_vars >>

\* Lines 67-85: the existence check, the glob loop, and the submission of
\* one unit per matched file.
pd_start ==
    /\ pd_pc = "start"
    /\ IF ~dir_exists
       THEN /\ pd_outcome' = Raised(DirectoryNotFoundError)
            /\ pd_pc' = "raised"
            /\ UNCHANGED << supported_files, upc, file_path >>
       ELSE \E sf \in GlobAll(dir_files, SUPPORTED_IMAGE_FORMATS \o SUPPORTED_PDF_FORMATS) :
            /\ supported_files' = sf
            /\ upc' = [ u \in Units |-> IF u <= Len(sf) THEN "queued" ELSE "none" ]
            /\ file_path' = [ u \in Units |-> IF u <= Len(sf) THEN sf[u] ELSE << >> ]
            /\ pd_pc' = "submitted"
            /\ UNCHANGED pd_outcome
    /\ UNCHANGED << dir_exists, dir_files, document_type, results, completed, ac_first,
                    handled, output, text, ocr_outcome, future, provider_calls, ed_vars >>
    /\ UNCHANGED << pdf_vars, padt_vars >>

\* The units of the pool that are executing.
RunningUnits == { v \in DOMAIN upc : Running(v) }

\* A worker takes the oldest queued unit whatever the number of units
\* that are executing.
unit_start_unbounded(u) ==
    /\ upc[u] = "queued"
    /\ \A v \in DOMAIN upc : v < u => upc[v] # "queued"
    /\ upc' = [ upc EXCEPT ![u] = "ocr" ]
    /\ UNCHANGED << pd_vars, file_path, text, ocr_outcome, future, provider_calls, ed_vars >>
    /\ UNCHANGED << pdf_vars, padt_vars >>

\* A free worker of the pool takes the oldest queued unit.
unit_start(u) ==
    /\ upc[u] = "queued"
    /\ \A v \in DOMAIN upc : v < u => upc[v] # "queued"
    /\ Cardinality(RunningUnits) < MAX_WORKERS
    /\ upc' = [ upc EXCEPT ![u] = "ocr" ]
    /\ UNCHANGED << pd_vars, file_path, text, ocr_outcome, future, provider_calls, ed_vars >>
    /\ UNCHANGED << pdf_vars, padt_vars >>

\* Line 86: as_completed is called; the futures already finished are
\* yielded first, in no particular order.
pd_as_completed ==
    /\ pd_pc = "submitted"
    /\ ac_first' = { u \in Submitted : upc[u] = "done" }
    /\ pd_pc' = "collecting"
    /\ UNCHANGED << dir_exists, dir_files, document_type, supported_files, results,
                    completed, handled, output, pd_outcome, psd_vars, ed_vars >>
    /\ UNCHANGED << pdf_vars, padt_vars >>

\* The unit as_completed may yield next, whatever the completion order.
NextYieldAny(u) == u \in Submitted \ handled /\ upc[u] = "done"

\* The unit as_completed may yield next: one of the futures that were
\* finished when it was called, as long as there is one; after them the
\* earliest finished of the others.
NextYield(u) ==
    IF ac_first \ handled # { }
    THEN u \in ac_first \ handled
    ELSE /\ u \in Submitted \ handled
         /\ upc[u] = "done"
         /\ \A i, j \in 1..Len(completed) :
              ( completed[j] = u /\ i < j ) => completed[i] \in handled

\* Lines 86-89: one turn of the loop: the next finished future is yielded,
\* its result is appended and saved; the write may fail.
pd_handle(u) ==
    /\ pd_pc = "collecting"
    /\ NextYield(u)
    /\ handled' = handled \cup { u }
    /\ IF future[u].kind = "raise"
       THEN \* line 87: future.result() re-raises what the unit raised
            /\ pd_pc' = "failing"
            /\ UNCHANGED << results, output >>
       ELSE /\ results' = Append(results, future[u].value)
            /\ \E write \in SaveOutcomes :
                 IF write = "written"
                 THEN /\ output' = save_result(output, future[u].value, supported_files[u].stem)
                      /\ UNCHANGED pd_pc
                 ELSE IF write = "open_failed"
                 THEN /\ pd_pc' = "failing"
                      /\ UNCHANGED output
                 ELSE /\ pd_pc' = "failing"
                      /\ output' = save_result(output, Partial(future[u].value),
                                               supported_files[u].stem)
    /\ UNCHANGED << dir_exists, dir_files, document_type, supported_files, completed,
                    ac_first, pd_outcome, psd_vars, ed_vars >>
    /\ UNCHANGED << pdf_vars, padt_vars >>

\* The list is returned while futures are still to be yielded.
pd_return_early ==
    /\ pd_pc = "collecting"
    /\ pd_outcome' = Returned(results)
    /\ pd_pc' = "returned"
    /\ UNCHANGED << dir_exists, dir_files, document_type, supported_files, results,
                    completed, ac_first, handled, output, psd_vars, ed_vars >>
    /\ UNCHANGED << pdf_vars, padt_vars >>

\* Lines 86-91: every future was yielded; the pool is shut down and the
\* list is returned.
pd_return ==
    /\ pd_pc = "collecting"
    /\ handled = Submitted
    /\ pd_outcome' = Returned(results)
    /\ pd_pc' = "returned"
    /\ UNCHANGED << dir_exists, dir_files, document_type, supported_files, results,
                    completed, ac_first, handled, output, psd_vars, ed_vars >>
    /\ UNCHANGED << pdf_vars, padt_vars >>

\* The exception leaves process_directory without the pool being waited for.
pd_raise_nowait ==
    /\ pd_pc = "failing"
    /\ pd_outcome' = Raised(SaveError)
    /\ pd_pc' = "raised"
    /\ UNCHANGED << dir_exists, dir_files, document_type, supported_files, results,
                    completed, ac_first, handled, output, psd_vars, ed_vars >>
    /\ UNCHANGED << pdf_vars, padt_vars >>

\* Line 81, leaving the with block on an exception: the pool waits for
\* every submitted unit, then the exception leaves process_directory.
pd_raise ==
    /\ pd_pc = "failing"
    /\ \A u \in Submitted : upc[u] = "done"
    /\ pd_outcome' = Raised(SaveError)
    /\ pd_pc' = "raised"
    /\ UNCHANGED << dir_exists, dir_files, document_type, supported_files, results,
                    completed, ac_first, handled, output, psd_vars, ed_vars >>
    /\ UNCHANGED << pdf_vars, padt_vars >>

MatchedFiles(files) ==
    { f \in files : InSeq(f.ext, SUPPORTED_IMAGE_FORMATS \o SUPPORTED_PDF_FORMATS) }

Init ==
    /\ dir_exists \in BOOLEAN
    /\ dir_files \in { S \in SUBSET BatchFiles : Cardinality(MatchedFiles(S)) <= MaxFiles }
    /\ dir_exists = FALSE => dir_files = { }
    /\ document_type \in DocTypeArgs
    /\ pd_pc = "start"
    /\ supported_files = << >>
    /\ results = << >>
    /\ completed = << >>
    /\ ac_first = { }
    /\ handled = { }
    /\ output = << >>
    /\ pd_outcome = NoOutcome
    /\ upc = [ u \in Units |-> "none" ]
    /\ file_path = [ u \in Units |-> << >> ]
    /\ text = [ u \in Units |-> << >> ]
    /\ ocr_outcome = [ u \in Units |-> NoOutcome ]
    /\ future = [ u \in Units |-> NoOutcome ]
    /\ provider_calls = [ u \in Units |-> 0 ]
    /\ InitPdfIdle
    /\ InitAllIdle
    /\ ed_pc = [ u \in Units |-> "idle" ]
    /\ stack = [ u \in Units |-> << >> ]
    /\ ed_outcome = [ u \in Units |-> NoOutcome ]
    /\ invocations = [ u \in Units |-> << >> ]
    /\ responses = [ u \in Units |-> << >> ]
    /\ log = [ u \in Units |-> << >> ]

Next ==
    \/ pd_start
    \/ pd_as_completed
    \/ pd_return
    \/ pd_raise
    \/ \E u \in Units :
        \/ unit_start(u)
        \/ psd_ocr(u)
        \/ extract_data_enter(u)
        \/ extract_data_response(u)
        \/ psd_finish(u)
        \/ pd_handle(u)

Spec == Init /\ [][Next]_vars

\* The pool's worker threads and the main thread keep running, and every
\* call to the OCR provider and to the model comes back: a step that can be
\* taken is eventually taken.
SpecFair == Spec /\ WF_vars(Next)

----------------------------------------------------------------------------
(* The pool of process_directory with more files than workers *)

PoolUnits == 1..(MAX_WORKERS + PoolExtra)

\* The matched files of a large directory: the first shows a short text,
\* the others show none.
PoolFile(k) ==
    File(<< "p", k >>, ".png", IF k = 1 THEN << ShortText >> ELSE << << >> >>)

\* Lines 74-85 have run on a directory of MAX_WORKERS + PoolExtra images:
\* every file is submitted and none has started.
InitPool ==
    /\ InitPdfIdle
    /\ InitAllIdle
    /\ dir_exists = TRUE
    /\ dir_files = { PoolFile(k) : k \in PoolUnits }
    /\ document_type = "driving_license"
    /\ pd_pc = "submitted"
    /\ supported_files = [ k \in PoolUnits |-> PoolFile(k) ]
    /\ results = << >>
    /\ completed = << >>
    /\ ac_first = { }
    /\ handled = { }
    /\ output = << >>
    /\ pd_outcome = NoOutcome
    /\ upc = [ u \in PoolUnits |-> "queued" ]
    /\ file_path = [ u \in PoolUnits |-> PoolFile(u) ]
    /\ text = [ u \in PoolUnits |-> << >> ]
    /\ ocr_outcome = [ u \in PoolUnits |-> NoOutcome ]
    /\ future = [ u \in PoolUnits |-> NoOutcome ]
    /\ provider_calls = [ u \in PoolUnits |-> 0 ]
    /\ ed_pc = [ u \in PoolUnits |-> "idle" ]
    /\ stack = [ u \in PoolUnits |-> << >> ]
    /\ ed_outcome = [ u \in PoolUnits |-> NoOutcome ]
    /\ invocations = [ u \in PoolUnits |-> << >> ]
    /\ responses = [ u \in PoolUnits |-> << >> ]
    /\ log = [ u \in PoolUnits |-> << >> ]

\* The steps of the pool's workers.
NextPool ==
    \E u \in PoolUnits :
        \/ unit_start(u)
        \/ psd_ocr(u)
        \/ extract_data_enter(u)
        \/ extract_data_response(u)
        \/ psd_finish(u)

SpecPool == InitPool /\ [][NextPool]_vars

----------------------------------------------------------------------------
(* DocumentPipeline.process_all_document_types *)

\* Lines 104-108: the dict document_types, in its insertion order.
document_types ==
    << [ doc_type |-> "driving_license", folder_name |-> "driving_license" ],
       [ doc_type |-> "shop_receipt", folder_name |-> "shop_receipts" ],
       [ doc_type |-> "resume", folder_name |-> "resumes" ] >>

FolderNames == { document_types[k].folder_name : k \in 1..Len(document_types) }

\* What a subfolder of the base directory may be: missing, empty, or
\* holding a few files.
FolderStates ==
    { [ exists |-> FALSE, files |-> { } ],
      [ exists |-> TRUE, files |-> { } ],
      [ exists |-> TRUE, files |-> { File("a", ".jpg", << ShortText >>) } ],
      [ exists |-> TRUE, files |-> { File("a", ".png", << << >> >>),
                                     File("c", ".txt", << ShortText >>) } ] }

\* A check that takes every folder to exist.
PathExistsAlways(sub) == TRUE

\* Line 115: os.path.exists(folder_path)
PathExists(sub) == sub.exists

\* Lines 112-120: one turn of the loop: process_directory is called for an
\* existing subfolder (a new call: new locals, a new pool), a missing one
\* is logged and skipped.
padt_step ==
    /\ padt_pc = "loop"
    /\ padt_i <= Len(document_types)
    /\ LET e   == document_types[padt_i]
           sub == subfolders[e.folder_name]
       IN  IF PathExists(sub)
           THEN /\ padt_pc' = "in_directory"
                /\ dir_exists' = sub.exists
                /\ dir_files' = sub.files
                /\ document_type' = e.doc_type
                /\ pd_pc' = "start"
                /\ supported_files' = << >>
                /\ results' = << >>
                /\ completed' = << >>
                /\ ac_first' = { }
                /\ handled' = { }
                /\ pd_outcome' = NoOutcome
                /\ upc' = [ u \in Units |-> "none" ]
                /\ file_path' = [ u \in Units |-> << >> ]
                /\ text' = [ u \in Units |-> << >> ]
                /\ ocr_outcome' = [ u \in Units |-> NoOutcome ]
                /\ future' = [ u \in Units |-> NoOutcome ]
                /\ provider_calls' = [ u \in Units |-> 0 ]
                /\ ed_pc' = [ u \in Units |-> "idle" ]
                /\ stack' = [ u \in Units |-> << >> ]
                /\ ed_outcome' = [ u \in Units |-> NoOutcome ]
                /\ invocations' = [ u \in Units |-> << >> ]
                /\ responses' = [ u \in Units |-> << >> ]
                /\ log' = [ u \in Units |-> << >> ]
                /\ UNCHANGED << padt_i, output >>
           ELSE /\ padt_i' = padt_i + 1
                /\ UNCHANGED << padt_pc, pd_vars, psd_vars, ed_vars >>
    /\ UNCHANGED << subfolders, all_results, padt_outcome, pdf_vars >>

\* Lines 117-118: process_directory has returned its list.
padt_collect ==
    /\ padt_pc = "in_directory"
    /\ pd_pc = "returned"
    /\ all_results' = [ dt \in DOMAIN all_results \cup { document_type } |->
                          IF dt = document_type THEN pd_outcome.value ELSE all_results[dt] ]
    /\ padt_i' = padt_i + 1
    /\ padt_pc' = "loop"
    /\ UNCHANGED << subfolders, padt_outcome, pd_vars, psd_vars, pdf_vars, ed_vars >>

\* Line 117: what process_directory raises is not caught.
padt_propagate ==
    /\ padt_pc = "in_directory"
    /\ pd_pc = "raised"
    /\ padt_outcome' = pd_outcome
    /\ padt_pc' = "raised"
    /\ UNCHANGED << subfolders, padt_i, all_results, pd_vars, psd_vars, pdf_vars, ed_vars >>

\* Line 122
padt_return ==
    /\ padt_pc = "loop"
    /\ padt_i > Len(document_types)
    /\ padt_outcome' = Returned(all_results)
    /\ padt_pc' = "returned"
    /\ UNCHANGED << subfolders, padt_i, all_results, pd_vars, psd_vars, pdf_vars, ed_vars >>

InitAll ==
    /\ InitDirIdle
    /\ InitPdfIdle
    /\ subfolders \in [ FolderNames -> FolderStates ]
    /\ padt_pc = "loop"
    /\ padt_i = 1
    /\ all_results = << >>
    /\ padt_outcome = NoOutcome
    /\ document_type = document_types[1].doc_type
    /\ upc = [ u \in Units |-> "none" ]
    /\ file_path = [ u \in Units |-> << >> ]
    /\ text = [ u \in Units |-> << >> ]
    /\ ed_pc = [ u \in Units |-> "idle" ]
    /\ stack = [ u \in Units |-> << >> ]
    /\ ed_outcome = [ u \in Units |-> NoOutcome ]
    /\ invocations = [ u \in Units |-> << >> ]
    /\ responses = [ u \in Units |-> << >> ]
    /\ log = [ u \in Units |-> << >> ]

\* The steps of process_directory and of its units are enabled only inside
\* a call made by padt_step.
NextAll ==
    \/ padt_step
    \/ padt_collect
    \/ padt_propagate
    \/ padt_return
    \/ Next

SpecAll == InitAll /\ [][NextAll]_vars

----------------------------------------------------------------------------
(* Properties of LLMService.extract_data (checked under SpecExtract) *)

Called(u) == ed_pc[u] # "idle"

Finished(u) == ed_pc[u] = "done"

RaisedWith(u, e) == ed_outcome[u].kind = "raise" /\ ed_outcome[u].exc = e

\* C6 (truncation): the text in the prompt of the first model invocation is
\* the first MAX_CHARS code points of the input, one by one, when the input
\* is longer than MAX_CHARS, and the whole input otherwise.
C6_Truncation ==
    \A u \in Units :
        invocations[u] # << >> =>
            LET sent == invocations[u][1].text
            IN  IF Len(text[u]) > MAX_CHARS
                THEN /\ Len(sent) = MAX_CHARS
                     /\ \A i \in 1..MAX_CHARS : sent[i] = text[u][i]
                ELSE sent = text[u]

\* A model invocation was made for an input longer than MAX_CHARS.
C6_Witness ==
    \E u \in Units : invocations[u] # << >> /\ Len(text[u]) > MAX_CHARS

AllResponsesEmpty(u) ==
    \A i \in 1..Len(responses[u]) :
        responses[u][i].kind = "content" /\ RawIsBlank(responses[u][i].raw)

\* C7 (retry convergence, as claimed): a call with non-blank text and a known
\* document type whose model responses are all empty ends with
\* EmptyModelOutputError, the last text sent having at most RETRY_MIN_CHARS
\* code points, and with no other error.
C7_RetryConvergence ==
    \A u \in Units :
        ( /\ Finished(u)
          /\ Strip(text[u]) # << >>
          /\ document_type \in KnownTypes
          /\ AllResponsesEmpty(u) )
        => /\ RaisedWith(u, EmptyModelOutputError)
           /\ invocations[u] # << >>
           /\ Len(invocations[u][Len(invocations[u])].text) <= RETRY_MIN_CHARS

\* C8 (parse failures are not retried): a non-blank response that does not
\* parse into the document type's schema is the last one of the call: the
\* call has ended with the parse error, no prompt was sent after it, and the
\* raw output is among the logged records.
C8_ParseFailureNotRetried ==
    \A u \in Units :
        \A i \in 1..Len(responses[u]) :
            LET r   == responses[u][i]
                cls == get_model_class(document_type)
            IN  ( r.kind = "content" /\ ~RawIsBlank(r.raw) /\ ~Parses(r.raw, cls) )
                => /\ i = Len(responses[u])
                   /\ i = Len(invocations[u])
                   /\ Finished(u)
                   /\ RaisedWith(u, SchemaParseError(r.raw, cls))
                   /\ \E k \in 1..Len(log[u]) :
                        /\ log[u][k].msg = "Raw LLM output: "
                        /\ log[u][k].raw = r.raw

\* A parse failure on the retry that followed an empty response.
C8_Witness ==
    \E u \in Units :
        /\ Len(responses[u]) = 2
        /\ responses[u][2].kind = "content"
        /\ ~RawIsBlank(responses[u][2].raw)
        /\ ed_outcome[u].kind = "raise"
        /\ ed_outcome[u].exc.cls = "OutputParserException"

\* C9 (empty input is rejected before any model call): a call whose text is
\* empty after stripping never sends a prompt, and ends with EmptyInputError.
C9_EmptyInputBeforeModel ==
    \A u \in Units :
        ( Called(u) /\ Strip(text[u]) = << >> )
        => /\ invocations[u] = << >>
           /\ Finished(u) => RaisedWith(u, EmptyInputError)

\* A call with a non-empty text of whitespace only has ended.
C9_Witness ==
    \E u \in Units :
        Finished(u) /\ Len(text[u]) > 0 /\ Strip(text[u]) = << >>

\* C10 (unknown document type, as claimed): whatever the text, a call with a
\* document type outside the three known tags sends no prompt and ends with
\* UnsupportedDocumentType.
C10_UnknownTypeRejected ==
    \A u \in Units :
        ( Called(u) /\ document_type \notin KnownTypes )
        => /\ invocations[u] = << >>
           /\ Finished(u) => RaisedWith(u, UnsupportedDocumentType(document_type))

----------------------------------------------------------------------------
(* Properties of process_single_document (checked under SpecDoc) *)

UnitDone(u) == upc[u] = "done"

HasKey(rec, k) == k \in DOMAIN rec

\* The failure of a stage of the unit, if any: what extract_text raised, or
\* what extract_data raised.
StageFailure(u) ==
    IF ocr_outcome[u].kind = "raise" THEN << ocr_outcome[u].exc >>
    ELSE IF ed_outcome[u].kind = "raise" THEN << ed_outcome[u].exc >>
    ELSE << >>

\* C1 (never raises): a finished call has returned a record, and when the
\* text extraction stage or the structured extraction stage failed, the
\* record's processing_status is "failed" and its error is the message of
\* the failure.
C1_NeverRaises ==
    \A u \in Units :
        UnitDone(u) =>
            /\ future[u].kind = "return"
            /\ future[u].value.processing_status \in { "success", "failed" }
            /\ StageFailure(u) # << >> =>
                 /\ future[u].value.processing_status = "failed"
                 /\ HasKey(future[u].value, "error")
                 /\ future[u].value.error.msg = StageFailure(u)[1].msg
                 /\ future[u].value.error.arg = StageFailure(u)[1].arg

\* A call has ended after the model provider raised an error that is not a
\* ValueError.
C1_Witness ==
    \E u \in Units :
        /\ UnitDone(u)
        /\ ed_outcome[u].kind = "raise"
        /\ ed_outcome[u].exc.cls = "APIError"

\* C3 (record invariant): a returned record has structured_data or error but
\* not both; structured_data exactly when the status is "success", error
\* exactly when it is "failed".
C3_RecordShape ==
    \A u \in Units :
        ( UnitDone(u) /\ future[u].kind = "return" ) =>
            LET rec == future[u].value
            IN  /\ HasKey(rec, "structured_data") # HasKey(rec, "error")
                /\ HasKey(rec, "structured_data") <=> rec.processing_status = "success"
                /\ HasKey(rec, "error") <=> rec.processing_status = "failed"

\* A record was returned after the model's answer failed to parse.
C3_Witness ==
    \E u \in Units :
        /\ UnitDone(u)
        /\ future[u].kind = "return"
        /\ ed_outcome[u].kind = "raise"
        /\ ed_outcome[u].exc.cls = "OutputParserException"

\* C4 (extracted text kept on later failure, as claimed): when text
\* extraction gave non-empty text and structured extraction failed, the
\* failed record carries extracted_text; when text extraction failed, the
\* record has no extracted_text.
C4_TextKeptOnLaterFailure ==
    \A u \in Units :
        ( UnitDone(u) /\ future[u].kind = "return" ) =>
            LET rec == future[u].value
            IN  /\ ed_outcome[u].kind = "raise" =>
                     /\ HasKey(rec, "extracted_text")
                     /\ rec.extracted_text = text[u]
                /\ ocr_outcome[u].kind = "raise" => ~HasKey(rec, "extracted_text")

\* C5 (OCR before extraction): extract_data is entered only after
\* extract_text has returned a text that is not blank; a unit whose text
\* extraction raised or gave blank text ends failed, with extract_data never
\* entered and no prompt sent.
C5_ExtractionOnlyAfterText ==
    \A u \in Units :
        /\ Called(u) => ( ocr_outcome[u].kind = "return" /\ Strip(text[u]) # << >> )
        /\ ( UnitDone(u) /\ ( ocr_outcome[u].kind = "raise" \/ Strip(text[u]) = << >> ) )
           => /\ ~Called(u)
              /\ invocations[u] = << >>
              /\ future[u].kind = "return"
              /\ future[u].value.processing_status = "failed"

\* A unit has ended whose extracted text was not empty but blank.
C5_Witness ==
    \E u \in Units :
        /\ UnitDone(u)
        /\ ocr_outcome[u].kind = "return"
        /\ Len(text[u]) > 0
        /\ Strip(text[u]) = << >>

----------------------------------------------------------------------------
(* Properties of process_directory (checked under Spec) *)

PdEnded == pd_pc \in { "returned", "raised" }

\* C2 (isolation, as claimed): a call on an existing directory with N
\* matched files ends by returning exactly N records, one per matched file,
\* each "success" or "failed"; no failure of the call discards them.
C2_Isolation ==
    ( PdEnded /\ dir_exists ) =>
        /\ pd_outcome.kind = "return"
        /\ Len(pd_outcome.value) = Cardinality(MatchedFiles(dir_files))
        /\ \A f \in MatchedFiles(dir_files) :
             \E i \in 1..Len(pd_outcome.value) :
                /\ pd_outcome.value[i].file_path = f
                /\ pd_outcome.value[i].processing_status \in { "success", "failed" }


ArtifactOf(f) == OutputPath(f.stem)

InResults(f) == \E i \in 1..Len(results) : results[i].file_path = f

\* C11 (runs to completion, as claimed): once the matched files are
\* submitted, eventually every submitted unit has finished and every file
\* has its record in the result list and an artifact in the output directory.
C11_RunsToCompletion ==
    ( pd_pc = "submitted" ) ~>
        ( \A u \in Submitted :
            /\ UnitDone(u)
            /\ InResults(supported_files[u])
            /\ ArtifactOf(supported_files[u]) \in DOMAIN output )


\* The last record of the result list that belongs to a file of this stem.
LastOfStem(stem) ==
    LET I == { i \in 1..Len(results) : results[i].file_path.stem = stem }
    IN  results[CHOOSE i \in I : \A j \in I : j <= i]

\* C12 (artifact naming): while no write has failed, every handled unit's
\* record is in the result list, the artifacts are exactly the paths
\* <stem>_result.json of the records, and each artifact holds the record
\* persisted last among those of its stem; two files of one stem leave two
\* records and one artifact.
C12_SharedStemOverwrite ==
    pd_pc \in { "collecting", "returned" } =>
        /\ \A u \in handled : InResults(supported_files[u])
        /\ Len(results) = Cardinality(handled)
        /\ DOMAIN output = { OutputPath(results[i].file_path.stem) : i \in 1..Len(results) }
        /\ \A i \in 1..Len(results) :
             output[OutputPath(results[i].file_path.stem)] = LastOfStem(results[i].file_path.stem)

C12_Witness ==
    /\ pd_pc = "returned"
    /\ Len(results) = 2
    /\ results[1].file_path # results[2].file_path
    /\ results[1].file_path.stem = results[2].file_path.stem
    /\ DOMAIN output = { OutputPath(results[1].file_path.stem) }
    /\ output[OutputPath(results[1].file_path.stem)] = results[2]

\* C16 (missing directory): a call on a directory that does not exist ends
\* at once by raising the directory-not-found error; no file is matched, no
\* unit is submitted or started, and no artifact is written.
C16_MissingDirectory ==
    ( ~dir_exists /\ pd_pc # "start" ) =>
        /\ pd_pc = "raised"
        /\ pd_outcome = Raised(DirectoryNotFoundError)
        /\ supported_files = << >>
        /\ \A u \in Units : upc[u] = "none" /\ future[u] = NoOutcome
        /\ results = << >>
        /\ output = << >>

C16_Witness == ~dir_exists /\ pd_pc = "raised" /\ pd_outcome = Raised(DirectoryNotFoundError)


\* The model's answer to the innermost call of unit u arrives and is blank.
BlankAnswerStep(u) ==
    /\ ed_pc[u] = "invoked"
    /\ Len(responses'[u]) = Len(responses[u]) + 1
    /\ Top(responses'[u]).kind = "content"
    /\ RawIsBlank(Top(responses'[u]).raw)

\* The text of the last prompt handed to the model by unit u.
TextSent(u) == Top(invocations[u]).text

\* C19 (empty-output retry): when a blank answer arrives for a prompt whose
\* text had n code points and n > RETRY_MIN_CHARS, extract_data is entered
\* again for the same document type with exactly the first n \div 2 code
\* points of that text; when n <= RETRY_MIN_CHARS no call is made and the
\* extraction ends with the empty-output error.
C19_EmptyOutputRetry ==
    [][ \A u \in Units :
          BlankAnswerStep(u) =>
              LET n == Len(TextSent(u))
              IN  IF n > RETRY_MIN_CHARS
                  THEN /\ ed_pc'[u] = "enter"
                       /\ Len(stack'[u]) = Len(stack[u]) + 1
                       /\ Top(stack'[u]).document_type = Top(stack[u]).document_type
                       /\ Top(stack'[u]).text = [ i \in 1..(n \div 2) |-> TextSent(u)[i] ]
                       /\ ed_outcome'[u] = NoOutcome
                  ELSE /\ ed_pc'[u] = "done"
                       /\ stack'[u] = << >>
                       /\ ed_outcome'[u] = Raised(EmptyModelOutputError) ]_vars

C19_Witness ==
    /\ ed_pc[1] = "enter"
    /\ Len(stack[1]) = 2
    /\ Len(responses[1]) = 1
    /\ responses[1][1].kind = "content"
    /\ RawIsBlank(responses[1][1].raw)
    /\ Len(invocations[1][1].text) = RETRY_MIN_CHARS + 1
    /\ Len(stack[1][2].text) = RETRY_MIN_CHARS \div 2
    /\ stack[1][2].document_type = stack[1][1].document_type


\* The unit that produced the i-th record of the result list.
UnitOf(i) == CHOOSE u \in Submitted : supported_files[u] = results[i].file_path

\* The place of unit u in the order in which the units finished.
CompletionRank(u) == CHOOSE k \in 1..Len(completed) : completed[k] = u

\* Every record but the last has its artifact; the last one lacks it only
\* when its write failed, which ends the loop.
ArtifactBeforeNextRecord ==
    \A i \in 1..Len(results) :
        \/ OutputPath(results[i].file_path.stem) \in DOMAIN output
        \/ i = Len(results) /\ pd_pc \in { "failing", "raised" }

\* C20 (as claimed): the records of the result list are in the order in
\* which their units finished, and each record's artifact is written before
\* a later record is accumulated.
C20_CompletionOrder ==
    /\ \A i, j \in 1..Len(results) :
         i < j => CompletionRank(UnitOf(i)) < CompletionRank(UnitOf(j))
    /\ ArtifactBeforeNextRecord

\* C20 (amended): the records are in the order in which as_completed yields
\* the futures: first those already finished when as_completed was called,
\* in no particular order, then the others in the order in which they
\* finished; each record's artifact is written before a later record is
\* accumulated.
C20_YieldOrder ==
    /\ \A i, j \in 1..Len(results) :
         i < j =>
            \/ UnitOf(i) \in ac_first
            \/ /\ UnitOf(j) \notin ac_first
               /\ CompletionRank(UnitOf(i)) < CompletionRank(UnitOf(j))
    /\ ArtifactBeforeNextRecord

\* Two units had finished when as_completed was called; their records are
\* accumulated and saved, the later finished first.
C20_Witness ==
    /\ pd_pc = "returned"
    /\ Len(results) = 2
    /\ ac_first = { 1, 2 }
    /\ CompletionRank(UnitOf(1)) > CompletionRank(UnitOf(2))
    /\ Cardinality(DOMAIN output) = 2


\* The extension of the file is in neither allow-list.
Unsupported(f) ==
    ~InSeq(Lower(f.ext), SUPPORTED_IMAGE_FORMATS \o SUPPORTED_PDF_FORMATS)

\* C15 (unsupported extension): a unit whose file has an extension outside
\* the image and PDF allow-lists never reaches the model, and when it is
\* done extract_text has raised the unsupported-format error without a
\* request to the OCR provider, and the unit has returned a failed record
\* carrying that error.
C15_UnsupportedFormat ==
    \A u \in Units :
        ( upc[u] \in { "llm", "done" } /\ Unsupported(file_path[u]) ) =>
            /\ upc[u] = "done"
            /\ ocr_outcome[u] = Raised(UnsupportedFormat(Lower(file_path[u].ext)))
            /\ provider_calls[u] = 0
            /\ ed_pc[u] = "idle"
            /\ invocations[u] = << >>
            /\ responses[u] = << >>
            /\ future[u] = Returned(FailedRecord(file_path[u], document_type,
                                                 UnsupportedFormat(Lower(file_path[u].ext))))

C15_Witness ==
    /\ UnitDone(1)
    /\ file_path[1].ext = ".txt"
    /\ provider_calls[1] = 0
    /\ future[1].kind = "return"
    /\ future[1].value.processing_status = "failed"
    /\ future[1].value.error = Str(UnsupportedFormat(".txt"))


\* Unit u writes, reads or deletes the temporary file of its page on this
\* step.
TouchesTemp(u) ==
    /\ pdf_pc[u] \in { "save", "ocr", "remove" }
    /\ pdf_pc'[u] # pdf_pc[u]

\* The temporary files created by unit u that are still there.
OwnTempFiles(u) == { p \in DOMAIN temp_files : temp_files[p].owner = u }

\* C13 (no shared temporary file, as claimed): no unit writes over, reads
\* or deletes a temporary page image that another unit created (nor finds
\* its own gone), and a unit whose extract_text_from_pdf has returned has
\* left none of its own.
C13_NoSharedTempFile ==
    [][ \A u \in Units :
          /\ TouchesTemp(u) =>
               /\ TempOf(u) \in DOMAIN temp_files => temp_files[TempOf(u)].owner = u
               /\ pdf_pc[u] \in { "ocr", "remove" } => TempOf(u) \in DOMAIN temp_files
          /\ ( pdf_pc'[u] = "done" /\ ocr_outcome'[u].kind = "return" ) =>
               \A p \in DOMAIN temp_files' : temp_files'[p].owner # u ]_vars

\* C14 (temporary files deleted, as claimed): once extract_text_from_pdf
\* has returned or raised, no temporary page image it created remains.
C14_TempFilesDeleted ==
    \A u \in Units : pdf_pc[u] = "done" => OwnTempFiles(u) = { }


\* The subfolder of the k-th document type.
SubfolderOf(k) == subfolders[document_types[k].folder_name]

\* The list is one directory's result list for document type dt: one record
\* per matched file of the subfolder, each of that document type.
IsResultListOf(list, sub, dt) ==
    /\ Len(list) = Cardinality(MatchedFiles(sub.files))
    /\ { list[i].file_path : i \in 1..Len(list) } = MatchedFiles(sub.files)
    /\ \A i \in 1..Len(list) :
         /\ list[i].document_type = dt
         /\ list[i].processing_status \in { "success", "failed" }

\* C17 (all document types): the mapping holds a key for a document type
\* exactly when the loop has passed it and its subfolder exists, mapped to
\* that directory's result list; process_directory only ever runs on a
\* subfolder that exists, a missing subfolder is passed over without an
\* exception, and what is returned is that mapping.
C17_ExistingSubfoldersOnly ==
    /\ \A k \in 1..Len(document_types) :
         LET dt == document_types[k].doc_type
         IN  /\ dt \in DOMAIN all_results <=> ( k < padt_i /\ SubfolderOf(k).exists )
             /\ dt \in DOMAIN all_results => IsResultListOf(all_results[dt], SubfolderOf(k), dt)
    /\ padt_pc = "in_directory" =>
         /\ SubfolderOf(padt_i).exists
         /\ dir_exists
         /\ dir_files = SubfolderOf(padt_i).files
         /\ document_type = document_types[padt_i].doc_type
    /\ padt_pc = "raised" => padt_outcome = Raised(SaveError)
    /\ padt_pc = "returned" =>
         /\ padt_outcome = Returned(all_results)
         /\ DOMAIN all_results =
              { document_types[k].doc_type : k \in { j \in 1..Len(document_types) : SubfolderOf(j).exists } }

C17_Witness ==
    /\ padt_pc = "returned"
    /\ ~subfolders["shop_receipts"].exists
    /\ DOMAIN padt_outcome.value = { "driving_license", "resume" }
    /\ padt_outcome.value["driving_license"] = << >>
    /\ Len(padt_outcome.value["resume"]) = 1


\* The greatest length of the text of the k-th invocation of one top-level
\* call: MAX_CHARS, halved once per retry.
RECURSIVE SentCap(_)
SentCap(k) == IF k = 1 THEN MAX_CHARS ELSE SentCap(k - 1) \div 2

\* C22 (invocation bound): one top-level call of extract_data hands at most
\* three prompts to the model; the k-th text sent has at most
\* MAX_CHARS / 2^(k-1) code points (2000, 1000, 500), is strictly shorter
\* than the one before, and is a prefix of the text the call was given.
C22_InvocationBound ==
    \A u \in Units :
        /\ Len(invocations[u]) <= 3
        /\ \A k \in 1..Len(invocations[u]) :
             /\ Len(invocations[u][k].text) <= SentCap(k)
             /\ k > 1 => Len(invocations[u][k].text) < Len(invocations[u][k - 1].text)
             /\ IsPrefixOf(invocations[u][k].text, text[u])

C22_Witness ==
    /\ Len(text[1]) > MAX_CHARS
    /\ Len(invocations[1]) = 3
    /\ Len(invocations[1][1].text) = MAX_CHARS
    /\ Len(invocations[1][2].text) = MAX_CHARS \div 2
    /\ Len(invocations[1][3].text) = RETRY_MIN_CHARS
    /\ ed_pc[1] = "done"


\* C23 (artifact write failure): when process_directory has raised the
\* error of a failed artifact write, every submitted unit has finished, no
\* list is returned, and no artifact holds the record of a unit whose
\* future was not handled; in every state each artifact holds a record of
\* the result list, under the name of that record's file (of the last
\* record, a part only when its write is the one that failed).
C23_SaveFailurePropagates ==
    /\ ( pd_pc = "raised" /\ dir_exists ) =>
          /\ pd_outcome = Raised(SaveError)
          /\ \A u \in Submitted : UnitDone(u)
          /\ \A u \in Submitted \ handled :
               /\ ~InResults(supported_files[u])
               /\ \A p \in DOMAIN output :
                    /\ output[p] # future[u].value
                    /\ output[p] # Partial(future[u].value)
    /\ \A p \in DOMAIN output :
          \E i \in 1..Len(results) :
              /\ p = OutputPath(results[i].file_path.stem)
              /\ \/ output[p] = results[i]
                 \/ /\ output[p] = Partial(results[i])
                    /\ i = Len(results)
                    /\ pd_pc \in { "failing", "raised" }

\* The first write fails while the other unit is still to be handled.
C23_Witness ==
    /\ pd_pc = "raised"
    /\ pd_outcome = Raised(SaveError)
    /\ Len(supported_files) = 2
    /\ Cardinality(handled) = 1
    /\ Len(results) = 1
    /\ output = << >>
    /\ \A u \in Submitted : UnitDone(u)


\* C21 (pool size): at most MAX_WORKERS units are executing at any time,
\* however many files were submitted; the units beyond that wait in the
\* queue, and a unit is executed once.
C21_AtMostFourRunning ==
    /\ Cardinality(RunningUnits) <= MAX_WORKERS
    /\ \A u \in DOMAIN upc :
         Cardinality({ k \in 1..Len(completed) : completed[k] = u }) =
            ( IF upc[u] = "done" THEN 1 ELSE 0 )

\* The pool is full and a submitted unit waits.
C21_Witness ==
    /\ Cardinality(RunningUnits) = MAX_WORKERS
    /\ \E u \in DOMAIN upc : upc[u] = "queued"
    /\ Cardinality(DOMAIN upc) > MAX_WORKERS


\* process_all_document_types calls process_directory for the next
\* subfolder on this step.
NextDirectoryStep == padt_pc = "loop" /\ padt_pc' = "in_directory"

\* The units that are submitted and not finished.
UnfinishedUnits == { u \in DOMAIN upc : upc[u] \in { "queued", "ocr", "llm" } }

\* C24 (directories in sequence): when process_directory is called for the
\* next subfolder, no unit of an earlier directory is queued or executing,
\* the earlier call has returned with every future handled and every record
\* of its list written to an artifact; every unfinished unit works on a
\* file of the subfolder at hand, for its document type, and at most
\* MAX_WORKERS units are executing.
C24_DirectoriesInSequence ==
    [][ /\ NextDirectoryStep =>
             /\ UnfinishedUnits = { }
             /\ pd_pc \in { "none", "returned" }
             /\ handled = Submitted
             /\ \A i \in 1..Len(results) :
                  /\ OutputPath(results[i].file_path.stem) \in DOMAIN output
                  /\ all_results[results[i].document_type] = results
        /\ \A u \in UnfinishedUnits :
             /\ padt_pc = "in_directory"
             /\ file_path[u] \in SubfolderOf(padt_i).files
             /\ document_type = document_types[padt_i].doc_type
        /\ Cardinality(RunningUnits) <= MAX_WORKERS ]_vars

\* A unit of the third directory is executing after the first directory's
\* batch has ended with its record and artifact.
C24_Witness ==
    /\ padt_pc = "in_directory"
    /\ padt_i = 3
    /\ "driving_license" \in DOMAIN all_results
    /\ Len(all_results["driving_license"]) = 1
    /\ OutputPath("a") \in DOMAIN output
    /\ RunningUnits # { }

====
